---- MODULE Spec2Model ----
(***************************************************************************)
(* Model of the online gaze-coding pipeline of icatcher_plus                *)
(* (src/src/icatcher/cli.py): predict_from_video with its sliding window,   *)
(* select_face, extract_crop, fix_illegal_transitions, handle_output and    *)
(* cleanup.                                                                 *)
(***************************************************************************)
EXTENDS Integers, Sequences, FiniteSets, TLC

(***************************************************************************)
(* Bounds of the model                                                      *)
(***************************************************************************)
MaxW == 5
MaxT == 6
MaxVideos == 2
MaxHist == 5

(***************************************************************************)
(* Labels (src/src/icatcher/__init__.py)                                    *)
(***************************************************************************)
none == -3
noface == -2
nobabyface == -1
away == 0
center == 1
left == 2
right == 3

classes == {none, noface, nobabyface, away, center, left, right}

reverse_classes(v) ==
  CASE v = -3 -> "none"
    [] v = -2 -> "noface"
    [] v = -1 -> "nobabyface"
    [] v = 0 -> "away"
    [] v = 1 -> "center"
    [] v = 2 -> "left"
    [] v = 3 -> "right"

Sentinels == {none, noface, nobabyface}

(***************************************************************************)
(* Python list indexing and slicing                                         *)
(***************************************************************************)
Abs(n) == IF n < 0 THEN -n ELSE n

Max2(a, b) == IF a > b THEN a ELSE b

Min2(a, b) == IF a < b THEN a ELSE b

\* 1-based position of Python index i in a list of length n (0 when out of range)
PyPos(n, i) ==
  LET j == IF i < 0 THEN n + i ELSE i
  IN IF j < 0 \/ j >= n THEN 0 ELSE j + 1

\* clamped 0-based bound of a Python slice
PyBound(n, i) == IF i < 0 THEN Max2(0, n + i) ELSE Min2(i, n)

\* s[a:b]
PySlice(s, a, b) ==
  LET lo == PyBound(Len(s), a)
      hi == PyBound(Len(s), b)
  IN IF hi <= lo THEN << >> ELSE SubSeq(s, lo + 1, hi)

\* s[a:b] = r  (slice assignment)
PySliceAssign(s, a, b, r) ==
  LET lo == PyBound(Len(s), a)
      hi == Max2(lo, PyBound(Len(s), b))
  IN SubSeq(s, 1, lo) \o r \o SubSeq(s, hi + 1, Len(s))

Pop0(s) == Tail(s)

MaxLen(ts) ==
  CHOOSE m \in {Len(ts[k]) : k \in 1..Len(ts)} :
    \A k \in 1..Len(ts) : Len(ts[k]) <= m

(***************************************************************************)
(* Frames, boxes and the detector                                           *)
(***************************************************************************)
FrameH == 4
FrameW == 4

\* Python None
None == << >>

BoxA == <<1, 1, 2, 2>>
BoxZ == <<1, 1, 0, 2>>
BoxB == <<0, 2, 2, 2>>
\* a box to the right of every frame
BoxOut == <<FrameW + 2, 1, 2, 2>>

\* lists of candidate boxes the face detector may return for a frame
PlainDetections == { << >>, <<BoxA>>, <<BoxZ>> }

\* two different faces
FaceDetections == { << >>, <<BoxA>>, <<BoxB>> }

\* a face, and a box that lies outside the frame
CropDetections == { << >>, <<BoxA>>, <<BoxOut>>, <<BoxZ, BoxOut>> }

\* labels and confidences (percent) the gaze classifier may return
GazeOutputs == {left, right}
ConfOutputs == {90}

(***************************************************************************)
(* select_face                                                              *)
(***************************************************************************)
\* box_score = (min(w,h) / max(w,h)) * (y + h), kept as <<numerator, denominator>>
BoxScore(box) == << Min2(box[3], box[4]) * (box[2] + box[4]), Max2(box[3], box[4]) >>

ScoreGreaterOrEqual(a, b) == a[1] * b[2] >= b[1] * a[2]

\* line 92: box_score > prev_score
ScoreGreater(a, b) == a[1] * b[2] > b[1] * a[2]

\* the loop of the heuristic branch; st = <<prev_score, bbox>>
RECURSIVE SelectByScore(_, _, _)
SelectByScore(bboxes, k, st) ==
  IF k > Len(bboxes) THEN st[2]
  ELSE LET box == bboxes[k]
       IN IF box[3] = 0 \/ box[4] = 0
          THEN SelectByScore(bboxes, k + 1, st)
          ELSE IF ScoreGreater(BoxScore(box), st[1])
               THEN SelectByScore(bboxes, k + 1, <<BoxScore(box), box>>)
               ELSE SelectByScore(bboxes, k + 1, st)

\* squared distance of the box centre to (hor, ver), scaled by (2*FrameW*FrameH)^2;
\* hor and ver are kept in halves (hor = 1 is 0.5, ver = 2 is 1)
CenterDist(box, hor, ver) ==
  LET dh == ((2 * box[1] + box[3]) - hor * FrameW) * FrameH
      dv == ((2 * box[2] + box[4]) - ver * FrameH) * FrameW
  IN dh * dh + dv * dv

\* preds[k] is the class the face classifier gives candidate k (0 = subject's face)
SelectByClassifier(bboxes, preds, hor, ver) ==
  LET idxs == {k \in 1..Len(bboxes) : preds[k] = 0}
  IN IF idxs = {} THEN None
     ELSE LET best == CHOOSE k \in idxs :
                        \A j \in idxs :
                          \/ CenterDist(bboxes[k], hor, ver) < CenterDist(bboxes[j], hor, ver)
                          \/ (CenterDist(bboxes[k], hor, ver) = CenterDist(bboxes[j], hor, ver) /\ k <= j)
          IN bboxes[best]

select_face(bboxes, fc_model, preds, hor, ver) ==
  IF fc_model
  THEN SelectByClassifier(bboxes, preds, hor, ver)
  ELSE SelectByScore(bboxes, 1, << <<0, 1>>, None >>)

(***************************************************************************)
(* extract_crop                                                             *)
(***************************************************************************)
ClampBox(bbox) == [k \in 1..4 |-> IF bbox[k] < 0 THEN 0 ELSE bbox[k]]

CropSizeUnclipped(bbox) ==
  LET b == ClampBox(bbox)
  IN b[4] * b[3]

\* number of pixels of frame[y:y+h, x:x+w]
CropSize(bbox) ==
  LET b == ClampBox(bbox)
      rows == Max2(0, Min2(b[2] + b[4], FrameH) - Min2(b[2], FrameH))
      cols == Max2(0, Min2(b[1] + b[3], FrameW) - Min2(b[1], FrameW))
  IN rows * cols

\* size of the crop extract_crop returns: the test transformation of
\* models.DataTransforms keeps an empty region an empty crop
ExtractedCropSize(bbox) == CropSize(bbox)

\* my_box: (face_size, face_ver, face_hor, face_height, face_width), each kept
\* as its numerator over (FrameH*FrameW, 2*FrameH, 2*FrameW, FrameH, FrameW)
BoxFeatures(bbox) ==
  LET b == ClampBox(bbox)
  IN << b[4] * b[3], 2 * b[2] + b[4], 2 * b[1] + b[3], b[4], b[3] >>

ZeroFeatures == <<0, 0, 0, 0, 0>>

(***************************************************************************)
(* fix_illegal_transitions                                                  *)
(***************************************************************************)
BufferSplitsNone(buffer_update, buffer) == {}

BufferSplitsWholeSpan(buffer_update, buffer) ==
  0..(Min2(Len(buffer_update), Len(buffer)) - 1)

\* positions (0-based) where the replacement differs from the compared buffer
BufferSplits(buffer_update, buffer) ==
  {k \in 0..(Min2(Len(buffer_update), Len(buffer)) - 1) : buffer_update[k + 1] # buffer[k + 1]}

RuleMatchesLastLabel(i, floc, ans, illegal) ==
  PySlice(ans, floc, floc + 1) = <<illegal[i][Len(illegal[i])]>>

\* lines 105-107: the comparison of rule i with the labels ending at floc
RuleMatches(i, floc, ans, illegal) ==
  PySlice(ans, floc - Len(illegal[i]) + 1, floc + 1) = illegal[i]

FixRuleShifted(i, floc, st, illegal, corrected) ==
  IF RuleMatches(i, floc, st[1], illegal)
  THEN << PySliceAssign(st[1], floc - Len(illegal[i]), floc, corrected[i]), st[2] >>
  ELSE st

\* one iteration of the loop over the rules; st = <<answers, confidences>>
FixRule(i, floc, st, illegal, corrected) ==
  LET len_trans == Len(illegal[i])
      buffer == PySlice(st[1], floc - len_trans + 1, floc + 1)
  IN IF RuleMatches(i, floc, st[1], illegal)
     THEN LET buffer_update == corrected[i]
              spots == BufferSplits(buffer_update, buffer)
              ans2 == PySliceAssign(st[1], floc - len_trans + 1, floc + 1, buffer_update)
              conf2 == [k \in 1..Len(st[2]) |->
                          IF \E spot \in spots :
                               PyPos(Len(st[2]), floc - len_trans + 1 + spot) = k
                          THEN -1 ELSE st[2][k]]
          IN <<ans2, conf2>>
     ELSE st

RECURSIVE FixFrom(_, _, _, _, _)
FixFrom(i, floc, st, illegal, corrected) ==
  IF i > Len(illegal) THEN st
  ELSE FixFrom(i + 1, floc, FixRule(i, floc, st, illegal, corrected), illegal, corrected)

fix_illegal_transitions(floc, ans, conf, illegal, corrected) ==
  FixFrom(1, floc, <<ans, conf>>, illegal, corrected)

(***************************************************************************)
(* State of predict_from_video                                              *)
(***************************************************************************)
VARIABLES
  \* opt and the video list: static configuration
  sliding_window_size, illegal_transitions_path, illegal_transitions,
  corrected_transitions, track_face, use_fc_model, mirror_annotation, on_off,
  show_output, num_videos,
  \* the lists of candidate boxes the face detector returns on these videos
  detector_outputs,
  \* the number of frames after which cap.read returns no frame, at the latest
  video_frames,
  \* locals of predict_from_video that live across videos
  pc, err, loc, cursor, max_illegal_transition_length, video_i, user_abort,
  cur_frame, cur_bbox, is_from_tracker, flush_i,
  \* per-video state
  answers, confidences, image_sequence, box_sequence, bbox_sequence, frames,
  from_tracker, last_known_valid_bbox, frame_count, hor, ver,
  \* observation of the current video: calls of handle_output, frames read
  \* from cap, calls of cleanup, and what cleanup persisted
  emitted, nread, cleanups, saved,
  \* per frame of the video: what lines 455-506 saw, resolved and appended
  slots,
  \* one invocation of fix_illegal_transitions, rule by rule
  fx_pc, fx_i, fx_answers, fx_confidences, fx_before, fx_fired, fx_orig,
  \* the left/right swap on its own: the labels given, the class texts and the
  \* label array after mr_text_n and mr_array_n applications of the swap
  mr_orig, mr_texts, mr_answers, mr_text_n, mr_array_n,
  \* one call of select_face: its candidates, its result
  sf_pc, sf_bboxes, sf_result

cfgvars == << sliding_window_size, illegal_transitions_path, illegal_transitions,
              corrected_transitions, track_face, use_fc_model, mirror_annotation,
              on_off, show_output, num_videos, detector_outputs,
              video_frames >>

setupvars == << loc, cursor, max_illegal_transition_length >>

curvars == << cur_frame, cur_bbox, is_from_tracker >>

winvars == << image_sequence, box_sequence, bbox_sequence, frames, from_tracker >>

vidvars == << answers, confidences, last_known_valid_bbox, frame_count, hor, ver >>

obsvars == << emitted, nread, cleanups, saved, slots >>

fxvars == << fx_pc, fx_i, fx_answers, fx_confidences, fx_before, fx_fired, fx_orig >>

mrvars == << mr_orig, mr_texts, mr_answers, mr_text_n, mr_array_n >>

sfvars == << sf_pc, sf_bboxes, sf_result >>

\* the variables of the functions run on their own
auxvars == << fxvars, mrvars, sfvars >>

pipevars == << cfgvars, setupvars, curvars, winvars, vidvars, obsvars,
               pc, err, video_i, user_abort, flush_i >>

(***************************************************************************)
(* Rule tables (what parse_illegal_transitions_file may return)             *)
(***************************************************************************)
\* a table is <<illegal_transitions, corrected_transitions>>
TableChain == << << <<right>>, <<left>> >>, << <<left>>, <<away>> >> >>
TablePair == << << <<left, right>>, <<away, left>> >>, << <<left, left>>, <<away, away>> >> >>
TableScenario == << << <<left, right, left>> >>, << <<left, left, left>> >> >>

\* the rules of TableChain in the other order
TableSwapped == << << <<left>>, <<right>> >>, << <<away>>, <<left>> >> >>

\* a rule whose replacement changes the first label of its span
TableBack == << << <<left, right>> >>, << <<right, right>> >> >>

PipelineTables == {TableChain, TablePair, TableScenario}

(***************************************************************************)
(* Initial states: one per configuration                                    *)
(***************************************************************************)
RunAt(p) ==
  /\ pc = p
  /\ err = "none"
  /\ loc = 0
  /\ cursor = 0
  /\ max_illegal_transition_length = 0
  /\ video_i = 0
  /\ user_abort = "unbound"
  /\ cur_frame = -1
  /\ cur_bbox = None
  /\ is_from_tracker = FALSE
  /\ flush_i = 0
  /\ answers = << >>
  /\ confidences = << >>
  /\ image_sequence = << >>
  /\ box_sequence = << >>
  /\ bbox_sequence = << >>
  /\ frames = << >>
  /\ from_tracker = << >>
  /\ last_known_valid_bbox = None
  /\ frame_count = 0
  /\ hor = 1
  /\ ver = 2
  /\ emitted = << >>
  /\ nread = 0
  /\ cleanups = 0
  /\ saved = << >>
  /\ slots = << >>

InitRun == RunAt("setup")

InitCfg(Ws, Tables, Tracks, Fcs, Mirrors, OnOffs, Shows, Nvs, Dets, T) ==
  /\ detector_outputs = Dets
  /\ video_frames = T
  /\ sliding_window_size \in Ws
  /\ \/ /\ illegal_transitions_path = FALSE
        /\ illegal_transitions = << >>
        /\ corrected_transitions = << >>
     \/ /\ illegal_transitions_path = TRUE
        /\ \E tb \in Tables :
             /\ illegal_transitions = tb[1]
             /\ corrected_transitions = tb[2]
  /\ track_face \in Tracks
  /\ use_fc_model \in Fcs
  /\ mirror_annotation \in Mirrors
  /\ on_off \in OnOffs
  /\ show_output \in Shows
  /\ num_videos \in Nvs

(***************************************************************************)
(* predict_from_video, lines 325-357: cursors and the configuration check   *)
(***************************************************************************)
CenterLocOldest(w) == -w

\* line 327
CenterLoc(w) == -((w \div 2) + 1)

RejectsLongerThanWindow(cur, w) == Abs(cur) - ((w \div 2) + 1) > w

RejectsConfigSigned(cur, w) == cur > w

\* line 345
RejectsConfig(cur, w) == Abs(cur) > w

CursorNotSlid(c, m) == c

\* line 353
SlideCursor(c, m) == c - m

Setup ==
  /\ pc = "setup"
  /\ loc' = CenterLoc(sliding_window_size)
  /\ IF illegal_transitions_path
     THEN /\ max_illegal_transition_length' = MaxLen(illegal_transitions)
          /\ cursor' = SlideCursor(CenterLoc(sliding_window_size), MaxLen(illegal_transitions))
     ELSE /\ max_illegal_transition_length' = max_illegal_transition_length
          /\ cursor' = CenterLoc(sliding_window_size)
  /\ IF illegal_transitions_path /\ RejectsConfig(cursor', sliding_window_size)
     THEN pc' = "error" /\ err' = "ValueError"
     ELSE pc' = "videos" /\ err' = err
  /\ UNCHANGED << auxvars, cfgvars, curvars, winvars, vidvars, obsvars, video_i, user_abort, flush_i >>

(***************************************************************************)
(* lines 361-436: the loop over the videos, per-video initialisation and    *)
(* the first cap.read()                                                     *)
(***************************************************************************)
StartVideo ==
  /\ pc = "videos"
  /\ video_i < num_videos
  /\ answers' = << >>
  /\ confidences' = << >>
  /\ image_sequence' = << >>
  /\ box_sequence' = << >>
  /\ bbox_sequence' = << >>
  /\ frames' = << >>
  /\ from_tracker' = << >>
  /\ last_known_valid_bbox' = None
  /\ frame_count' = 0
  /\ hor' = 1
  /\ ver' = 2
  /\ emitted' = << >>
  /\ cleanups' = 0
  /\ saved' = << >>
  /\ slots' = << >>
  /\ \E ret_val \in BOOLEAN :
       IF ret_val
       THEN pc' = "frame" /\ err' = err /\ nread' = 1
       ELSE pc' = "error" /\ err' = "AttributeError" /\ nread' = 0
  /\ UNCHANGED << auxvars, cfgvars, setupvars, curvars, video_i, user_abort, flush_i >>

Finish ==
  /\ pc = "videos"
  /\ video_i >= num_videos
  /\ pc' = "done"
  /\ UNCHANGED << auxvars, cfgvars, setupvars, curvars, winvars, vidvars, obsvars,
                  err, video_i, user_abort, flush_i >>

(***************************************************************************)
(* lines 438-511: append the slot of the live frame, then read the frame,   *)
(* box and tracker flag at the cursor                                       *)
(***************************************************************************)
NoFaceCaseUntracked(bboxes) == bboxes = << >>

NoFaceCaseAnyOption(bboxes) == bboxes = << >> /\ last_known_valid_bbox = None

\* line 460
NoFaceCase(bboxes) == bboxes = << >> /\ (last_known_valid_bbox = None \/ ~track_face)

\* lines 507-511; the lists are those after the appends
PeekCursor(fr, bb, ft) ==
  IF frame_count + 1 >= Abs(cursor)
  THEN IF PyPos(Len(fr), cursor) = 0
       THEN /\ pc' = "error" /\ err' = "IndexError"
            /\ UNCHANGED curvars
       ELSE /\ cur_frame' = fr[PyPos(Len(fr), cursor)]
            /\ cur_bbox' = bb[PyPos(Len(bb), cursor)]
            /\ is_from_tracker' = ft[PyPos(Len(ft), cursor)]
            /\ pc' = "predict" /\ err' = err
  ELSE /\ pc' = "predict" /\ err' = err
       /\ UNCHANGED curvars

\* the number of boxes the detector returned for a frame, the box resolved
\* for the frame, its tracker flag, and whether a slot was appended for it
SlotOf(bboxes, bbox, tracked, appended) ==
  [nboxes |-> Len(bboxes), bbox |-> bbox, tracked |-> tracked, appended |-> appended]

AppendNoFace ==
  /\ slots' = Append(slots, SlotOf(<< >>, None, FALSE, TRUE))
  /\ answers' = Append(answers, noface)
  /\ confidences' = Append(confidences, -1)
  /\ image_sequence' = Append(image_sequence, <<-1, FALSE>>)
  /\ box_sequence' = Append(box_sequence, ZeroFeatures)
  /\ bbox_sequence' = Append(bbox_sequence, None)
  /\ from_tracker' = Append(from_tracker, FALSE)
  /\ UNCHANGED last_known_valid_bbox
  /\ PeekCursor(frames', bbox_sequence', from_tracker')

LastKnownKept(tracked, selected_bbox) == last_known_valid_bbox

\* lines 505-506
LastKnownAfter(tracked, selected_bbox) ==
  IF ~tracked THEN selected_bbox ELSE last_known_valid_bbox

AppendSelected(bboxes, preds) ==
  LET tracked == (bboxes = << >>)
      cands == IF tracked THEN <<last_known_valid_bbox>> ELSE bboxes
      selected_bbox == select_face(cands, use_fc_model, preds, hor, ver)
  IN /\ from_tracker' = Append(from_tracker, tracked)
     /\ IF selected_bbox = None
        THEN /\ answers' = Append(answers, nobabyface)
             /\ confidences' = Append(confidences, -1)
             /\ image_sequence' = Append(image_sequence, <<-1, FALSE>>)
             /\ box_sequence' = Append(box_sequence, ZeroFeatures)
             /\ bbox_sequence' = Append(bbox_sequence, None)
             /\ slots' = Append(slots, SlotOf(bboxes, None, tracked, TRUE))
             /\ UNCHANGED last_known_valid_bbox
             /\ PeekCursor(frames', bbox_sequence', from_tracker')
        ELSE IF ExtractedCropSize(selected_bbox) = 0
             THEN /\ pc' = "error" /\ err' = "ValueError"
                  /\ slots' = Append(slots, SlotOf(bboxes, selected_bbox, tracked, FALSE))
                  /\ UNCHANGED << answers, confidences, image_sequence, box_sequence,
                                  bbox_sequence, last_known_valid_bbox, curvars >>
             ELSE /\ answers' = Append(answers, none)
                  /\ confidences' = Append(confidences, -1)
                  /\ image_sequence' = Append(image_sequence, <<frame_count, TRUE>>)
                  /\ box_sequence' = Append(box_sequence, BoxFeatures(selected_bbox))
                  /\ bbox_sequence' = Append(bbox_sequence, selected_bbox)
                  /\ slots' = Append(slots, SlotOf(bboxes, selected_bbox, tracked, TRUE))
                  /\ last_known_valid_bbox' = LastKnownAfter(tracked, selected_bbox)
                  /\ PeekCursor(frames', bbox_sequence', from_tracker')

FaceLocationOfLastBox(bbs) ==
  IF bbs = << >> \/ bbs[Len(bbs)] = None
  THEN << hor, ver >>
  ELSE << (2 * bbs[Len(bbs)][1] + bbs[Len(bbs)][3]) \div FrameW,
          (2 * bbs[Len(bbs)][2] + bbs[Len(bbs)][4]) \div FrameH >>

\* hor and ver are assigned at line 397 only: select_face does not return the
\* center of the box it selected (line 76 is a comment)
FaceLocationAfter(bbs) == << hor, ver >>

AppendFrame ==
  /\ pc = "frame"
  /\ frames' = Append(frames, frame_count)
  /\ \E bboxes \in detector_outputs :
       IF NoFaceCase(bboxes)
       THEN AppendNoFace
       ELSE \E preds \in [1..Max2(1, Len(bboxes)) -> IF use_fc_model THEN {0, 1} ELSE {0}] :
              AppendSelected(bboxes, preds)
  /\ hor' = FaceLocationAfter(bbox_sequence')[1]
  /\ ver' = FaceLocationAfter(bbox_sequence')[2]
  /\ UNCHANGED << auxvars, cfgvars, setupvars, emitted, nread, cleanups, saved,
                  frame_count, video_i, user_abort, flush_i >>

(***************************************************************************)
(* lines 512-555: classify the middle frame of a full window, pop the       *)
(* oldest slot, fix illegal transitions                                     *)
(***************************************************************************)
WindowFullLate == Len(image_sequence) = sliding_window_size + 1

WindowFull == Len(image_sequence) = sliding_window_size

\* line 517
MiddleValid == image_sequence[(sliding_window_size \div 2) + 1][2]

\* lines 514-516 and 544-545
PopFrames == Pop0(frames)

PopBboxSequence == Pop0(bbox_sequence)

PopFromTracker == Pop0(from_tracker)

PopImageSequence == Pop0(image_sequence)

PopBoxSequenceKept == box_sequence

PopBoxSequence == Pop0(box_sequence)

FixedAtCursor(ans, conf) ==
  IF illegal_transitions_path /\ Len(ans) >= max_illegal_transition_length
  THEN fix_illegal_transitions(cursor, ans, conf, illegal_transitions, corrected_transitions)
  ELSE <<ans, conf>>

\* lines 547-555
Fixed(ans, conf) ==
  IF illegal_transitions_path /\ Len(ans) >= max_illegal_transition_length
  THEN fix_illegal_transitions(loc, ans, conf, illegal_transitions, corrected_transitions)
  ELSE <<ans, conf>>

Predict ==
  /\ pc = "predict"
  /\ IF WindowFull
     THEN /\ frames' = PopFrames
          /\ bbox_sequence' = PopBboxSequence
          /\ from_tracker' = PopFromTracker
          /\ image_sequence' = PopImageSequence
          /\ box_sequence' = PopBoxSequence
          /\ IF MiddleValid
             THEN \E int32_pred \in GazeOutputs, float32_conf \in ConfOutputs :
                    LET ans1 == [answers EXCEPT ![PyPos(Len(answers), loc)] = int32_pred]
                        conf1 == [confidences EXCEPT ![PyPos(Len(confidences), loc)] = float32_conf]
                    IN /\ answers' = Fixed(ans1, conf1)[1]
                       /\ confidences' = Fixed(ans1, conf1)[2]
             ELSE /\ answers' = Fixed(answers, confidences)[1]
                  /\ confidences' = Fixed(answers, confidences)[2]
     ELSE UNCHANGED << winvars, answers, confidences >>
  /\ pc' = "report"
  /\ UNCHANGED << auxvars, cfgvars, setupvars, curvars, obsvars, last_known_valid_bbox,
                  frame_count, hor, ver, err, video_i, user_abort, flush_i >>

(***************************************************************************)
(* lines 556-583: report the frame at the cursor, read the next frame       *)
(***************************************************************************)
\* lines 559-563
MirrorText(t) == IF t = "left" THEN "right" ELSE IF t = "right" THEN "left" ELSE t

ClassTextKeepsSentinels(label) ==
  LET t0 == reverse_classes(label)
      t1 == IF mirror_annotation THEN MirrorText(t0) ELSE t0
  IN IF on_off /\ label \notin Sentinels
     THEN (IF t1 = "away" THEN "off" ELSE "on")
     ELSE t1

\* lines 558-565
ClassText(label) ==
  LET t0 == reverse_classes(label)
      t1 == IF mirror_annotation THEN MirrorText(t0) ELSE t0
  IN IF on_off THEN (IF t1 = "away" THEN "off" ELSE "on") ELSE t1

OutputCallOneBehind(path, label, text, conf, abort, frm, bb, trk) ==
  [ path |-> path,
    frame_number |-> frame_count + cursor,
    class_text |-> text,
    confidence |-> conf,
    label |-> label,
    is_from_tracker |-> trk,
    cur_frame |-> frm,
    cur_bbox |-> bb,
    abort |-> abort ]

\* the arguments of one call of handle_output (lines 623-711) and its result
OutputCall(path, label, text, conf, abort, frm, bb, trk) ==
  [ path |-> path,
    frame_number |-> frame_count + cursor + 1,
    class_text |-> text,
    confidence |-> conf,
    label |-> label,
    is_from_tracker |-> trk,
    cur_frame |-> frm,
    cur_bbox |-> bb,
    abort |-> abort ]

\* handle_output returns True only from the show_output branch (line 671)
AbortChoices == IF show_output THEN BOOLEAN ELSE {FALSE}

\* cur_frame, cur_bbox and is_from_tracker are assigned again before every
\* later use (lines 509-511, 590-592): their old values are dropped here
ForgetCur ==
  /\ cur_frame' = -1
  /\ cur_bbox' = None
  /\ is_from_tracker' = FALSE

\* lines 582-583
ReadNext ==
  /\ frame_count' = frame_count + 1
  /\ \E ret_val \in BOOLEAN :
       /\ ret_val => nread < video_frames
       /\ IF ret_val
          THEN pc' = "frame" /\ nread' = nread + 1
          ELSE pc' = "eos" /\ nread' = nread

Report ==
  /\ pc = "report"
  /\ IF frame_count + 1 >= Abs(cursor)
     THEN IF PyPos(Len(answers), cursor) = 0
          THEN /\ pc' = "error" /\ err' = "IndexError"
               /\ UNCHANGED << emitted, user_abort, frame_count, nread, curvars >>
          ELSE \E abort \in AbortChoices :
                 /\ emitted' = Append(emitted,
                      OutputCall("main", answers[PyPos(Len(answers), cursor)],
                                 ClassText(answers[PyPos(Len(answers), cursor)]),
                                 confidences[PyPos(Len(confidences), cursor)], abort,
                                 cur_frame, cur_bbox, is_from_tracker))
                 /\ user_abort' = IF abort THEN "true" ELSE "false"
                 /\ err' = err
                 /\ ForgetCur
                 /\ IF abort
                    THEN pc' = "eos" /\ UNCHANGED << frame_count, nread >>
                    ELSE ReadNext
     ELSE /\ ReadNext
          /\ UNCHANGED << emitted, user_abort, err, curvars >>
  /\ UNCHANGED << auxvars, cfgvars, setupvars, winvars, answers, confidences,
                  last_known_valid_bbox, hor, ver, cleanups, saved, slots, video_i,
                  flush_i >>

(***************************************************************************)
(* lines 584-609: report the left-over frames                               *)
(***************************************************************************)
FlushFirstOneEarlier == sliding_window_size - Abs(cursor) - 1

\* first value of the range of line 585-587
FlushFirst == sliding_window_size - Abs(cursor)

\* one past the last value of that range
FlushStop == sliding_window_size - 1

EndOfStreamAlwaysFlushes ==
  /\ pc = "eos"
  /\ IF user_abort = "unbound"
     THEN pc' = "error" /\ err' = "NameError" /\ UNCHANGED flush_i
     ELSE pc' = "flush" /\ err' = err /\ flush_i' = FlushFirst
  /\ UNCHANGED << auxvars, cfgvars, setupvars, curvars, winvars, vidvars, obsvars,
                  video_i, user_abort >>

\* line 584
EndOfStream ==
  /\ pc = "eos"
  /\ IF user_abort = "unbound"
     THEN pc' = "error" /\ err' = "NameError" /\ UNCHANGED flush_i
     ELSE IF user_abort = "false"
          THEN pc' = "flush" /\ err' = err /\ flush_i' = FlushFirst
          ELSE pc' = "cleanup" /\ err' = err /\ UNCHANGED flush_i
  /\ UNCHANGED << auxvars, cfgvars, setupvars, curvars, winvars, vidvars, obsvars,
                  video_i, user_abort >>

FlushStep ==
  /\ pc = "flush"
  /\ IF flush_i >= FlushStop
     THEN /\ pc' = "cleanup"
          /\ UNCHANGED << curvars, emitted, frame_count, user_abort, flush_i, err >>
     ELSE IF PyPos(Len(frames), flush_i) = 0
          THEN /\ pc' = "error" /\ err' = "IndexError"
               /\ UNCHANGED << curvars, emitted, frame_count, user_abort, flush_i >>
          ELSE /\ ForgetCur
               /\ \E abort \in AbortChoices :
                    /\ emitted' = Append(emitted,
                         OutputCall("flush", none, "none", -1, abort,
                                    frames[PyPos(Len(frames), flush_i)],
                                    bbox_sequence[PyPos(Len(bbox_sequence), flush_i)],
                                    from_tracker[PyPos(Len(from_tracker), flush_i)]))
                    /\ user_abort' = IF abort THEN "true" ELSE "false"
                    /\ IF abort
                       THEN pc' = "cleanup" /\ UNCHANGED flush_i
                       ELSE pc' = "flush" /\ flush_i' = flush_i + 1
               /\ frame_count' = frame_count + 1
               /\ err' = err
  /\ UNCHANGED << auxvars, cfgvars, setupvars, winvars, answers, confidences,
                  last_known_valid_bbox, hor, ver, nread, cleanups, saved, slots,
                  video_i >>

(***************************************************************************)
(* lines 611-620 and cleanup (714-739)                                      *)
(***************************************************************************)
MirrorLabelInPlace(a) == IF a = left \/ a = right THEN left ELSE a

\* lines 733-737: both masks are taken before either assignment
MirrorLabel(a) == IF a = left THEN right ELSE IF a = right THEN left ELSE a

CleanupInPlace ==
  /\ pc = "cleanup"
  /\ cleanups' = cleanups + 1
  /\ answers' = [k \in 1..Len(answers) |->
                   IF mirror_annotation THEN MirrorLabel(answers[k]) ELSE answers[k]]
  /\ saved' = << answers', confidences >>
  /\ video_i' = video_i + 1
  /\ pc' = "videos"
  /\ flush_i' = 0
  /\ UNCHANGED << auxvars, cfgvars, setupvars, curvars, winvars, confidences,
                  last_known_valid_bbox, frame_count, hor, ver, emitted, nread, slots, err,
                  user_abort >>

\* cleanup works on np.array(answers), a copy (line 729)
Cleanup ==
  /\ pc = "cleanup"
  /\ cleanups' = cleanups + 1
  /\ saved' = << [k \in 1..Len(answers) |->
                    IF mirror_annotation THEN MirrorLabel(answers[k]) ELSE answers[k]],
                 confidences >>
  /\ video_i' = video_i + 1
  /\ pc' = "videos"
  /\ flush_i' = 0
  /\ UNCHANGED << auxvars, cfgvars, setupvars, curvars, winvars, vidvars, emitted, nread,
                  slots, err, user_abort >>

(***************************************************************************)
(* The run of predict_from_video                                            *)
(***************************************************************************)
Next ==
  \/ Setup
  \/ StartVideo
  \/ Finish
  \/ AppendFrame
  \/ Predict
  \/ Report
  \/ EndOfStream
  \/ FlushStep
  \/ Cleanup

FxIdle ==
  /\ fx_pc = "idle"
  /\ fx_i = 0
  /\ fx_answers = << >>
  /\ fx_confidences = << >>
  /\ fx_before = << >>
  /\ fx_fired = {}
  /\ fx_orig = << >>

MrIdle ==
  /\ mr_orig = << >>
  /\ mr_texts = << >>
  /\ mr_answers = << >>
  /\ mr_text_n = 0
  /\ mr_array_n = 0

SfIdle ==
  /\ sf_pc = "idle"
  /\ sf_bboxes = << >>
  /\ sf_result = None

\* no function is run on its own
AuxIdle == FxIdle /\ MrIdle /\ SfIdle

vars == << pipevars, auxvars >>

AllW == 1..MaxW

Init ==
  /\ InitCfg(AllW, PipelineTables, {FALSE}, {FALSE}, {FALSE}, {FALSE}, {TRUE}, {1},
             PlainDetections, MaxT)
  /\ InitRun
  /\ AuxIdle

Spec == Init /\ [][Next]_vars

\* a batch of videos, small windows
BatchW == 1..3

InitBatch ==
  /\ InitCfg(BatchW, {TableChain}, {FALSE}, {FALSE}, {FALSE}, {FALSE}, {TRUE}, {MaxVideos},
             PlainDetections, MaxT)
  /\ InitRun
  /\ AuxIdle

SpecBatch == InitBatch /\ [][Next]_vars

\* one video reported with and without mirroring and the on/off collapse
DisplayW == 1..3

InitDisplay ==
  /\ InitCfg(DisplayW, {TableChain}, {FALSE}, {FALSE}, BOOLEAN, BOOLEAN, {FALSE}, {1},
             PlainDetections, MaxT)
  /\ InitRun
  /\ AuxIdle

SpecDisplay == InitDisplay /\ [][Next]_vars

\* one video under tables whose replacements form patterns or change labels
\* before the end of their span
LagW == {MaxW - 2, MaxW}

LagTables == {TableChain, TableSwapped, TablePair, TableBack}

LagDetections == { << >>, <<BoxA>> }

\* long enough for a label rewritten by a rule of two labels to be reported
LagT == MaxT + 2

InitLag ==
  /\ InitCfg(LagW, LagTables, {FALSE}, {FALSE}, BOOLEAN, {FALSE}, {FALSE}, {1},
             LagDetections, LagT)
  /\ InitRun
  /\ AuxIdle

SpecLag == InitLag /\ [][Next]_vars

\* one video on which the detector may return a box outside the frame
CropW == {MaxW}

InitCrop ==
  /\ InitCfg(CropW, {}, BOOLEAN, BOOLEAN, {FALSE}, {FALSE}, {FALSE}, {1}, CropDetections, MaxT)
  /\ InitRun
  /\ AuxIdle

SpecCrop == InitCrop /\ [][Next]_vars

\* one video with face tracking, with and without the face classifier
FacesW == {MaxW}

InitFaces ==
  /\ InitCfg(FacesW, {}, {TRUE}, BOOLEAN, {FALSE}, {FALSE}, {FALSE}, {1}, FaceDetections, MaxT)
  /\ InitRun
  /\ AuxIdle

SpecFaces == InitFaces /\ [][Next]_vars

(***************************************************************************)
(* fix_illegal_transitions on its own: one call, one rule per step          *)
(***************************************************************************)
RuleLabels == {left, right}

HistLabels == {away, left, right}

Patterns == {<<a>> : a \in RuleLabels} \cup {<<a, b>> : a, b \in RuleLabels}

\* a rule is <<pattern, replacement>>, both of one length
Rules == {r \in Patterns \X Patterns : Len(r[1]) = Len(r[2])}

\* tables of one or two rules, as <<illegal_transitions, corrected_transitions>>
FixTables ==
  {<< <<r[1]>>, <<r[2]>> >> : r \in Rules}
    \cup {<< <<r[1][1], r[2][1]>>, <<r[1][2], r[2][2]>> >> : r \in Rules \X Rules}

\* the confidence a stored label carries before any correction
ConfOf(a) == IF a \in Sentinels THEN -1 ELSE 90

InitFix ==
  /\ sliding_window_size \in 3..MaxW
  /\ illegal_transitions_path = TRUE
  /\ \E tb \in FixTables :
       /\ illegal_transitions = tb[1]
       /\ corrected_transitions = tb[2]
  /\ ~RejectsConfig(CenterLoc(sliding_window_size) - MaxLen(illegal_transitions),
                    sliding_window_size)
  /\ track_face = FALSE
  /\ use_fc_model = FALSE
  /\ mirror_annotation = FALSE
  /\ on_off = FALSE
  /\ show_output = FALSE
  /\ num_videos = 1
  /\ detector_outputs = PlainDetections
  /\ video_frames = MaxT
  /\ pc = "fix"
  /\ err = "none"
  /\ loc = CenterLoc(sliding_window_size)
  /\ cursor = CenterLoc(sliding_window_size) - MaxLen(illegal_transitions)
  /\ max_illegal_transition_length = MaxLen(illegal_transitions)
  /\ video_i = 0
  /\ user_abort = "unbound"
  /\ cur_frame = -1
  /\ cur_bbox = None
  /\ is_from_tracker = FALSE
  /\ flush_i = 0
  /\ answers = << >>
  /\ confidences = << >>
  /\ image_sequence = << >>
  /\ box_sequence = << >>
  /\ bbox_sequence = << >>
  /\ frames = << >>
  /\ from_tracker = << >>
  /\ last_known_valid_bbox = None
  /\ frame_count = 0
  /\ hor = 1
  /\ ver = 2
  /\ emitted = << >>
  /\ nread = 0
  /\ cleanups = 0
  /\ saved = << >>
  /\ slots = << >>
  /\ fx_pc = "loop"
  /\ fx_i = 1
  /\ \E n \in sliding_window_size..MaxHist :
       fx_answers \in [1..n -> HistLabels]
  /\ fx_confidences = [k \in 1..Len(fx_answers) |-> ConfOf(fx_answers[k])]
  /\ fx_before = << >>
  /\ fx_fired = {}
  /\ fx_orig = <<fx_answers, fx_confidences>>
  /\ MrIdle
  /\ SfIdle

\* lines 104-112: the loop body for rule fx_i
FixStep ==
  /\ fx_pc = "loop"
  /\ fx_i <= Len(illegal_transitions)
  /\ LET st == FixRule(fx_i, loc, <<fx_answers, fx_confidences>>,
                       illegal_transitions, corrected_transitions)
     IN /\ fx_answers' = st[1]
        /\ fx_confidences' = st[2]
  /\ fx_before' = Append(fx_before, fx_answers)
  /\ fx_fired' = IF RuleMatches(fx_i, loc, fx_answers, illegal_transitions)
                 THEN fx_fired \cup {fx_i} ELSE fx_fired
  /\ fx_i' = fx_i + 1
  /\ UNCHANGED << pipevars, mrvars, sfvars, fx_pc, fx_orig >>

\* line 113
FixReturn ==
  /\ fx_pc = "loop"
  /\ fx_i > Len(illegal_transitions)
  /\ fx_pc' = "returned"
  /\ UNCHANGED << pipevars, mrvars, sfvars, fx_i, fx_answers, fx_confidences, fx_before,
                  fx_fired, fx_orig >>

NextFix == FixStep \/ FixReturn

SpecFix == InitFix /\ [][NextFix]_vars

(***************************************************************************)
(* Properties of the run of one video                                       *)
(***************************************************************************)
W == sliding_window_size

D == Abs(cursor)

Consec(a, n) == [k \in 1..n |-> a + k - 1]

IsMain(r) == r.path = "main"

IsFlush(r) == r.path = "flush"

MainCalls == SelectSeq(emitted, IsMain)

FlushCalls == SelectSeq(emitted, IsFlush)

Numbers(calls) == [k \in 1..Len(calls) |-> calls[k].frame_number]

NoAbort == \A k \in 1..Len(emitted) : ~emitted[k].abort

\* the frame source is exhausted and the video is over: cleanup is next, or
\* the end-of-stream code raised
VideoOver ==
  \/ pc = "cleanup"
  \/ pc = "error" /\ err \in {"NameError", "IndexError"}

\* C1: a run over a video of T >= 1 frames without user abort hands exactly T
\* records to handle_output, with the frame numbers 0, 1, ..., T-1 in
\* increasing order.
C1_EveryFrameEmittedOnce ==
  (VideoOver /\ NoAbort /\ nread >= 1) => Numbers(emitted) = Consec(0, nread)

\* C2 as stated: at end of stream without abort exactly the last D records
\* (frame numbers T-D .. T-1) come from the flush path with "none" and -1 and
\* every earlier record from the main path.
C2_FlushEmitsLastD ==
  (pc = "cleanup" /\ NoAbort /\ nread >= 1) =>
    /\ Numbers(FlushCalls) = Consec(nread - D, D)
    /\ Numbers(MainCalls) = Consec(0, nread - D)
    /\ \A k \in 1..Len(FlushCalls) :
         FlushCalls[k].class_text = "none" /\ FlushCalls[k].confidence = -1

\* C2 amended: the flush path only emits records "none"/-1, numbered
\* consecutively from T-D+1, at most D-1 of them and after all main-path
\* records, which are numbered consecutively from 0; when the flush loop has
\* run to its end these are exactly the D-1 frame numbers T-D+1 .. T-1 and
\* the main path has emitted exactly the frame numbers 0 .. T-D.
C2_FlushEmitsLastDMinus1 ==
  /\ \A i, j \in 1..Len(emitted) : (i < j /\ IsFlush(emitted[i])) => IsFlush(emitted[j])
  /\ Numbers(MainCalls) = Consec(0, Len(MainCalls))
  /\ Numbers(FlushCalls) = Consec(nread - D + 1, Len(FlushCalls))
  /\ Len(FlushCalls) <= Max2(0, D - 1)
  /\ \A k \in 1..Len(FlushCalls) :
       FlushCalls[k].class_text = "none" /\ FlushCalls[k].confidence = -1
  /\ (pc = "cleanup" /\ user_abort = "false") =>
       /\ Len(FlushCalls) = D - 1
       /\ Len(MainCalls) = nread - D + 1

C2_Witness ==
  /\ pc = "cleanup"
  /\ user_abort = "false"
  /\ Len(FlushCalls) >= 2
  /\ Len(MainCalls) >= 2

\* C3: a video shorter than the lag depth (1 <= T < D) is processed without
\* raising, and each of its T frames is emitted exactly once with "none"/-1.
C3_ShortVideoReportedUnclassified ==
  (pc \in {"error", "cleanup"} /\ nread >= 1 /\ nread < D /\ NoAbort) =>
    /\ pc = "cleanup"
    /\ Numbers(emitted) = Consec(0, nread)
    /\ \A k \in 1..Len(emitted) :
         emitted[k].class_text = "none" /\ emitted[k].confidence = -1

\* C4: at the end of every completed iteration of the per-frame loop (and
\* after every completed append and pop) the five window lists frames,
\* bbox_sequence, from_tracker, image_sequence and box_sequence have the same
\* length.
C4_WindowListsAligned ==
  pc \in {"frame", "predict", "report", "eos", "flush", "cleanup"} =>
    /\ Len(frames) = Len(bbox_sequence)
    /\ Len(frames) = Len(from_tracker)
    /\ Len(frames) = Len(image_sequence)
    /\ Len(frames) = Len(box_sequence)

C4_Witness ==
  /\ pc = "frame"
  /\ frame_count > W
  /\ Len(box_sequence) >= 2

\* C5 as stated: the window lists never hold more than W slots and hold
\* exactly W slots after processing frame k, for every k >= W-1.
C5_LengthWAfterFrame ==
  /\ Len(frames) <= W
  /\ Len(image_sequence) <= W
  /\ (pc = "frame" /\ frame_count >= W) => Len(image_sequence) = W

\* C5 amended: the window lists never hold more than W slots; they hold
\* exactly W slots when the live frame k >= W-1 has been appended and the
\* window is about to be classified, and exactly W-1 slots after processing
\* frame k (the oldest slot is popped in the same iteration).
C5_LengthWMinus1AfterFrame ==
  /\ Len(frames) <= W
  /\ Len(bbox_sequence) <= W
  /\ Len(from_tracker) <= W
  /\ Len(image_sequence) <= W
  /\ Len(box_sequence) <= W
  /\ (pc = "predict" /\ frame_count >= W - 1) => Len(image_sequence) = W
  /\ (pc = "frame" /\ frame_count >= W) => Len(image_sequence) = W - 1

C5_Witness ==
  /\ pc = "frame"
  /\ frame_count > W
  /\ W >= 3
  /\ Len(image_sequence) = W - 1

\* C6: for every window size, a slot appended with the sentinel noface or
\* nobabyface keeps its label and its confidence -1: the classifier result is
\* never written into it.
C6_SentinelNeverOverwritten ==
  [][\A k \in 1..Len(answers) :
       (k <= Len(answers') /\ answers[k] \in {noface, nobabyface}) =>
         (answers'[k] = answers[k] /\ confidences'[k] = -1)]_vars

\* C8: with window size 5 and the single rule [left,right,left] ->
\* [left,left,left] the run is accepted (and corrects [away,left,right,left,
\* away] to [away,left,left,left,away]).
C8_ScenarioAccepted ==
  (W = 5 /\ illegal_transitions_path /\ illegal_transitions = TableScenario[1]
     /\ corrected_transitions = TableScenario[2])
    => ~(pc = "error" /\ err = "ValueError")

(***************************************************************************)
(* Properties of one call of fix_illegal_transitions                        *)
(***************************************************************************)
NumRules == Len(illegal_transitions)

\* 1-based positions of the span of rule i, the len(pattern) labels ending at loc
SpanLo(ans, i) == Len(ans) + loc - Len(illegal_transitions[i]) + 2

SpanHi(ans) == Len(ans) + loc + 1

InSpan(ans, i, k) == SpanLo(ans, i) <= k /\ k <= SpanHi(ans)

SpanIs(ans, i) ==
  /\ SpanLo(ans, i) >= 1
  /\ \A k \in 1..Len(illegal_transitions[i]) :
       ans[SpanLo(ans, i) + k - 1] = illegal_transitions[i][k]

Replaced(ans, i) ==
  [k \in 1..Len(ans) |->
     IF InSpan(ans, i, k) THEN corrected_transitions[i][k - SpanLo(ans, i) + 1] ELSE ans[k]]

ConfReplaced(ans, conf, i) ==
  [k \in 1..Len(conf) |->
     IF InSpan(ans, i, k) /\ corrected_transitions[i][k - SpanLo(ans, i) + 1] # ans[k]
     THEN -1 ELSE conf[k]]

\* the rules whose pattern equals the labels of the history as it was passed in
MatchOrig == {i \in 1..NumRules : SpanIs(fx_orig[1], i)}

MinOf(S) == CHOOSE i \in S : \A j \in S : i <= j

\* the labels as rule j left them
AfterRule(j) == IF j < Len(fx_before) THEN fx_before[j + 1] ELSE fx_answers

NoLaterMatch(ans, i) == \A j \in (i + 1)..NumRules : ~SpanIs(ans, j)

\* C7 as stated: when exactly one rule's pattern equals the labels of its span
\* ending at loc, the result is the history with that span replaced and
\* confidence -1 exactly where the replacement differs; when no rule matches,
\* answers and confidences come back unchanged.
C7_SingleMatchRewritten ==
  fx_pc = "returned" =>
    /\ MatchOrig = {} => (fx_answers = fx_orig[1] /\ fx_confidences = fx_orig[2])
    /\ Cardinality(MatchOrig) = 1 =>
         /\ fx_answers = Replaced(fx_orig[1], MinOf(MatchOrig))
         /\ fx_confidences = ConfReplaced(fx_orig[1], fx_orig[2], MinOf(MatchOrig))

\* C7 amended: the same, provided no later rule of the table matches the
\* labels as rewritten by the one matching rule.
C7_SingleMatchRewrittenUnlessChained ==
  fx_pc = "returned" =>
    /\ MatchOrig = {} => (fx_answers = fx_orig[1] /\ fx_confidences = fx_orig[2])
    /\ (/\ Cardinality(MatchOrig) = 1
        /\ NoLaterMatch(Replaced(fx_orig[1], MinOf(MatchOrig)), MinOf(MatchOrig))) =>
         /\ fx_answers = Replaced(fx_orig[1], MinOf(MatchOrig))
         /\ fx_confidences = ConfReplaced(fx_orig[1], fx_orig[2], MinOf(MatchOrig))

C7_Witness ==
  /\ fx_pc = "returned"
  /\ NumRules = 2
  /\ Cardinality(MatchOrig) = 1
  /\ Len(illegal_transitions[MinOf(MatchOrig)]) = 2
  /\ NoLaterMatch(Replaced(fx_orig[1], MinOf(MatchOrig)), MinOf(MatchOrig))
  /\ \E k, m \in 1..Len(fx_answers) :
       /\ InSpan(fx_orig[1], MinOf(MatchOrig), k)
       /\ InSpan(fx_orig[1], MinOf(MatchOrig), m)
       /\ fx_answers[k] # fx_orig[1][k] /\ fx_confidences[k] = -1
       /\ fx_answers[m] = fx_orig[1][m] /\ fx_confidences[m] = 90

\* C9 as stated: rules do not chain; every rule is compared against the labels
\* as they were before any rewrite of the invocation, so a rule fires only
\* when its pattern equals the original labels of its span.
C9_RulesCompareOriginal ==
  \A j \in 1..Len(fx_before) : (j \in fx_fired) => SpanIs(fx_orig[1], j)

\* C9 amended: rules chain; every rule is compared against the labels as the
\* rules before it in the table left them, fires exactly when its pattern
\* equals those labels, and then replaces them, so a later rule does match
\* labels produced by an earlier rule's replacement.
C9_RulesCompareRewritten ==
  \A j \in 1..Len(fx_before) :
    /\ (j \in fx_fired) <=> SpanIs(fx_before[j], j)
    /\ AfterRule(j) = IF j \in fx_fired THEN Replaced(fx_before[j], j) ELSE fx_before[j]

C9_Witness ==
  /\ fx_pc = "returned"
  /\ fx_fired = {1, 2}
  /\ ~SpanIs(fx_orig[1], 2)
  /\ fx_before[2] # fx_orig[1]
  /\ fx_answers # fx_before[2]

\* C10 as stated: when two or more rules match the labels ending at the same
\* position, the result is the earliest matching rule's replacement, not
\* altered by any later rule.
C10_EarliestRuleWins ==
  (fx_pc = "returned" /\ Cardinality(MatchOrig) >= 2) =>
    fx_answers = Replaced(fx_orig[1], MinOf(MatchOrig))

\* C10 amended: when two or more rules match the labels ending at the same
\* position, the earliest matching rule is applied first; its replacement is
\* the result unless a later rule's pattern equals the rewritten labels, and
\* then that later rule rewrites them again.
C10_EarliestRuleFirst ==
  (fx_pc = "returned" /\ Cardinality(MatchOrig) >= 2) =>
    LET i == MinOf(MatchOrig)
        r == Replaced(fx_orig[1], i)
    IN /\ AfterRule(i) = r
       /\ NoLaterMatch(r, i) => fx_answers = r
       /\ ~NoLaterMatch(r, i) =>
            LET j == MinOf({m \in (i + 1)..NumRules : SpanIs(r, m)})
            IN AfterRule(j) = Replaced(r, j)

C10_Witness ==
  /\ fx_pc = "returned"
  /\ Cardinality(MatchOrig) >= 2
  /\ fx_fired = {1, 2}
  /\ fx_before[2] # fx_orig[1]
  /\ fx_answers # Replaced(fx_orig[1], MinOf(MatchOrig))

(***************************************************************************)
(* Properties of the configuration check                                    *)
(***************************************************************************)
\* a rule of the table has a pattern longer than the window
PatternExceedsWindow ==
  /\ illegal_transitions_path
  /\ \E i \in 1..Len(illegal_transitions) : Len(illegal_transitions[i]) > W

\* C11: when a rule's pattern is longer than the window size W, the run ends
\* with the configuration error (ValueError) at setup: no video is started,
\* no frame is read or appended to any list, and no record is emitted.
C11_LongPatternRejectedBeforeAnyFrame ==
  (PatternExceedsWindow /\ pc # "setup") =>
    /\ pc = "error" /\ err = "ValueError"
    /\ video_i = 0
    /\ nread = 0
    /\ frames = << >> /\ image_sequence = << >> /\ box_sequence = << >>
    /\ bbox_sequence = << >> /\ from_tracker = << >>
    /\ answers = << >> /\ confidences = << >>
    /\ emitted = << >>
    /\ cleanups = 0

C11_Witness ==
  /\ PatternExceedsWindow
  /\ W = 2
  /\ pc = "error"
  /\ err = "ValueError"

(***************************************************************************)
(* Properties of the emission lag                                           *)
(***************************************************************************)
\* the lag depth named by the configuration
LagDepth ==
  (W \div 2) + 1 + (IF illegal_transitions_path THEN MaxLen(illegal_transitions) ELSE 0)

\* a step of the per-frame loop that hands a record to handle_output; the
\* live frame of that iteration is frame_count
MainEmission == pc = "report" /\ Len(emitted') = Len(emitted) + 1

LastEmitted == emitted'[Len(emitted')]

\* C12 as stated: the record emitted while live frame k is processed belongs
\* to frame k - D, with D = (W//2)+1+maxPatternLength under a correction table
\* and (W//2)+1 without; no record is emitted for a frame less than D frames
\* behind the live frame.
C12_EmittedFrameLagsD ==
  [][MainEmission =>
       /\ LastEmitted.frame_number = frame_count - LagDepth
       /\ LastEmitted.cur_frame = frame_count - LagDepth]_vars

\* C12 amended: the record emitted while live frame k is processed belongs to
\* frame k - D + 1 (its number, its frame and its stored label and
\* confidence), with D as above; nothing is emitted while k < D - 1, so no
\* record is emitted for a frame less than D - 1 frames behind the live frame.
C12_EmittedFrameLagsDMinus1 ==
  [][/\ MainEmission =>
          /\ D = LagDepth
          /\ frame_count - LagDepth + 1 >= 0
          /\ LastEmitted.path = "main"
          /\ LastEmitted.frame_number = frame_count - LagDepth + 1
          /\ LastEmitted.cur_frame = frame_count - LagDepth + 1
          /\ LastEmitted.label = answers[frame_count - LagDepth + 2]
          /\ LastEmitted.confidence = confidences[frame_count - LagDepth + 2]
     /\ (pc = "report" /\ frame_count < LagDepth - 1) => emitted' = emitted]_vars

C12_Witness ==
  /\ illegal_transitions_path
  /\ D = 4
  /\ Len(MainCalls) >= 2
  /\ MainCalls[2].frame_number = 1
  /\ MainCalls[2].cur_frame = 1

(***************************************************************************)
(* Properties of frames without a detected face                             *)
(***************************************************************************)
\* the detector returned no boxes for frames s, s+1, s+2 (frame numbers from 0)
NoBoxesFrom(s) ==
  /\ s >= 0
  /\ s + 3 <= Len(slots)
  /\ \A g \in s..(s + 2) : slots[g + 1].nboxes = 0

\* frame f lies in a run of three consecutive frames without boxes
InNoBoxRun(f) == \E s \in (f - 2)..f : NoBoxesFrom(s)

\* C13: with tracking disabled, the records the per-frame loop emits for
\* three consecutive frames for which the detector returned no boxes all have
\* label "noface", confidence -1 and tracker flag false, wherever in the
\* video those frames lie (the flush path reports its frames as "none").
C13_NoFaceRunReportedNoFace ==
  ~track_face =>
    \A k \in 1..Len(emitted) :
      (IsMain(emitted[k]) /\ InNoBoxRun(emitted[k].frame_number)) =>
        /\ emitted[k].label = noface
        /\ emitted[k].class_text = "noface"
        /\ emitted[k].confidence = -1
        /\ ~emitted[k].is_from_tracker

(***************************************************************************)
(* Properties of the tracker fallback                                       *)
(***************************************************************************)
\* the frames before frame f for which a box was appended that did not come
\* from the tracker (frame numbers from 0)
ValidBefore(f) == {g \in 0..(f - 1) : slots[g + 1].bbox # None /\ ~slots[g + 1].tracked}

MaxOf(S) == CHOOSE i \in S : \A j \in S : j <= i

\* the last valid (non-tracker) box before frame f
LastValidBox(f) ==
  IF ValidBefore(f) = {} THEN None ELSE slots[MaxOf(ValidBefore(f)) + 1].bbox

\* the detector returned no boxes for frame f, tracking is enabled and a prior
\* valid box exists
TrackerCase(f) ==
  /\ track_face
  /\ f + 1 <= Len(slots)
  /\ slots[f + 1].nboxes = 0
  /\ LastValidBox(f) # None

\* C14 as stated: the record emitted for a frame without detector boxes, with
\* tracking enabled and a prior valid box, has tracker flag true and carries
\* the last valid (non-tracker) box, with or without a face classifier.
C14_TrackerRecordCarriesLastBox ==
  \A k \in 1..Len(emitted) :
    (IsMain(emitted[k]) /\ TrackerCase(emitted[k].frame_number)) =>
      /\ emitted[k].is_from_tracker
      /\ emitted[k].cur_bbox = LastValidBox(emitted[k].frame_number)

\* C14 amended: for such a frame the slot appended, and the record the
\* per-frame loop emits for it, has tracker flag true; its box is the last
\* valid (non-tracker) box when no face classifier is configured, and with a
\* face classifier it is that box or, when the classifier rejects that box,
\* absent.
C14_TrackerRecordCarriesLastBoxUnlessRejected ==
  /\ \A f \in 0..(Len(slots) - 1) :
       TrackerCase(f) =>
         /\ slots[f + 1].tracked
         /\ slots[f + 1].bbox \in {LastValidBox(f), None}
         /\ ~use_fc_model => slots[f + 1].bbox = LastValidBox(f)
  /\ \A k \in 1..Len(emitted) :
       (IsMain(emitted[k]) /\ TrackerCase(emitted[k].frame_number)) =>
         /\ emitted[k].is_from_tracker
         /\ emitted[k].cur_bbox = slots[emitted[k].frame_number + 1].bbox

C14_Witness ==
  /\ use_fc_model
  /\ \E k, m \in 1..Len(emitted) :
       /\ IsMain(emitted[k]) /\ TrackerCase(emitted[k].frame_number)
       /\ IsMain(emitted[m]) /\ TrackerCase(emitted[m].frame_number)
       /\ emitted[k].is_from_tracker /\ emitted[k].cur_bbox = BoxB
       /\ ValidBefore(emitted[k].frame_number) = {0, 1}
       /\ slots[1].bbox = BoxA
       /\ emitted[m].is_from_tracker /\ emitted[m].cur_bbox = None

(***************************************************************************)
(* The left/right swap on its own: the class text handed to handle_output   *)
(* (lines 559-563) and the label array cleanup saves (lines 733-737)        *)
(***************************************************************************)
MaxMirrorLen == 3

AllLabels == {none, noface, nobabyface, away, center, left, right}

\* how often the swap is applied
MirrorTimes == 2

InitMirror ==
  /\ InitCfg({1}, {}, {FALSE}, {FALSE}, {TRUE}, {FALSE}, {FALSE}, {1}, PlainDetections, MaxT)
  /\ RunAt("mirror")
  /\ FxIdle
  /\ SfIdle
  /\ \E n \in 0..MaxMirrorLen : mr_orig \in [1..n -> AllLabels]
  /\ mr_texts = [k \in 1..Len(mr_orig) |-> reverse_classes(mr_orig[k])]
  /\ mr_answers = mr_orig
  /\ mr_text_n = 0
  /\ mr_array_n = 0

\* lines 559-563, applied to every class text
SwapTexts ==
  /\ pc = "mirror"
  /\ mirror_annotation
  /\ mr_text_n < MirrorTimes
  /\ mr_texts' = [k \in 1..Len(mr_texts) |-> MirrorText(mr_texts[k])]
  /\ mr_text_n' = mr_text_n + 1
  /\ UNCHANGED << pipevars, fxvars, sfvars, mr_orig, mr_answers, mr_array_n >>

\* lines 733-737, applied to the label array
SwapArray ==
  /\ pc = "mirror"
  /\ mirror_annotation
  /\ mr_array_n < MirrorTimes
  /\ mr_answers' = [k \in 1..Len(mr_answers) |-> MirrorLabel(mr_answers[k])]
  /\ mr_array_n' = mr_array_n + 1
  /\ UNCHANGED << pipevars, fxvars, sfvars, mr_orig, mr_texts, mr_text_n >>

NextMirror == SwapTexts \/ SwapArray

SpecMirror == InitMirror /\ [][NextMirror]_vars

(***************************************************************************)
(* Properties of the left/right swap                                        *)
(***************************************************************************)
\* what one swap must give for label a: left and right exchanged, the rest kept
Swapped(a) == CASE a = left -> right [] a = right -> left [] OTHER -> a

\* C15: applying the left/right swap twice, to the emitted class texts and to
\* the persisted label array, gives back the original; one application
\* exchanges left and right and changes no other entry.
C15_SwapIsInvolution ==
  /\ Len(mr_texts) = Len(mr_orig)
  /\ Len(mr_answers) = Len(mr_orig)
  /\ mr_array_n % 2 = 0 => mr_answers = mr_orig
  /\ mr_text_n % 2 = 0 =>
       \A k \in 1..Len(mr_orig) : mr_texts[k] = reverse_classes(mr_orig[k])
  /\ mr_array_n % 2 = 1 => \A k \in 1..Len(mr_orig) : mr_answers[k] = Swapped(mr_orig[k])
  /\ mr_text_n % 2 = 1 =>
       \A k \in 1..Len(mr_orig) : mr_texts[k] = reverse_classes(Swapped(mr_orig[k]))

C15_Witness ==
  /\ mr_array_n = 2
  /\ mr_text_n = 2
  /\ \E i, j, k \in 1..Len(mr_orig) :
       mr_orig[i] = left /\ mr_orig[j] = right /\ mr_orig[k] = away

(***************************************************************************)
(* Properties of the reporting transforms                                   *)
(***************************************************************************)
\* the steps that read mirror_annotation and on_off: the report of a frame
\* (lines 556-581), the flush (584-609) and cleanup (714-739)
DisplayStep == pc \in {"report", "flush", "cleanup"}

\* C16: mirroring and the on/off collapse never modify the stored numeric
\* labels (answers) or confidences that the classifier and the corrector read
\* and write: every step that applies them leaves both lists as they were,
\* and the label handed on is the stored one.
C16_DisplayLeavesStoredLabels ==
  [][DisplayStep =>
       /\ answers' = answers
       /\ confidences' = confidences
       /\ MainEmission => LastEmitted.class_text = ClassText(LastEmitted.label)]_vars

C16_Witness ==
  /\ pc = "videos"
  /\ cleanups = 1
  /\ mirror_annotation
  /\ saved[1] # answers
  /\ \E k \in 1..Len(emitted) :
       /\ emitted[k].label = left
       /\ emitted[k].class_text = "right"
       /\ emitted[k].frame_number + 1 <= Len(answers)
       /\ answers[emitted[k].frame_number + 1] = left

(***************************************************************************)
(* select_face on its own, without a face classifier (lines 77-94)          *)
(***************************************************************************)
MaxCands == 3

\* candidate boxes: top edge above, at and below the top of the frame, sides
\* of 0 (degenerate), 1 and 2 pixels
CandBoxes == {<<1, y, w, h>> : y \in {-1, 0, 1}, w \in 0..2, h \in 0..2}

InitSelect ==
  /\ InitCfg({1}, {}, {FALSE}, {FALSE}, {FALSE}, {FALSE}, {FALSE}, {1}, PlainDetections, MaxT)
  /\ RunAt("select")
  /\ FxIdle
  /\ MrIdle
  /\ sf_pc = "call"
  /\ \E n \in 0..MaxCands : sf_bboxes \in [1..n -> CandBoxes]
  /\ sf_result = None

SelectCall ==
  /\ sf_pc = "call"
  /\ sf_result' = select_face(sf_bboxes, use_fc_model, [k \in 1..Len(sf_bboxes) |-> 0], hor, ver)
  /\ sf_pc' = "returned"
  /\ UNCHANGED << pipevars, fxvars, mrvars, sf_bboxes >>

NextSelect == SelectCall

SpecSelect == InitSelect /\ [][NextSelect]_vars

(***************************************************************************)
(* Properties of select_face                                                *)
(***************************************************************************)
\* the candidates that are not degenerate
Scored == {k \in 1..Len(sf_bboxes) : sf_bboxes[k][3] # 0 /\ sf_bboxes[k][4] # 0}

\* score = (min(w,h) / max(w,h)) * (y + h) as a fraction
ScoreNum(k) == Min2(sf_bboxes[k][3], sf_bboxes[k][4]) * (sf_bboxes[k][2] + sf_bboxes[k][4])

ScoreDen(k) == Max2(sf_bboxes[k][3], sf_bboxes[k][4])

ScorePositive(k) == ScoreNum(k) > 0

ScoreAtMost(j, k) == ScoreNum(j) * ScoreDen(k) <= ScoreNum(k) * ScoreDen(j)

\* the candidates of maximal score among those with a positive score
Best == {k \in Scored : ScorePositive(k) /\ \A j \in Scored : ScoreAtMost(j, k)}

\* C17: without a face classifier select_face scores each candidate as
\* (min(w,h)/max(w,h)) * (y+h), skips candidates with w = 0 or h = 0, and
\* returns a candidate of maximal score, the first in list order on ties; it
\* returns None exactly when no non-degenerate candidate has a score > 0.
C17_SelectsFirstMaxScore ==
  sf_pc = "returned" =>
    /\ (sf_result = None) <=> (\A k \in Scored : ~ScorePositive(k))
    /\ Best # {} => sf_result = sf_bboxes[MinOf(Best)]

C17_Witness ==
  /\ sf_pc = "returned"
  /\ Len(sf_bboxes) = 3
  /\ Best = {2, 3}
  /\ sf_bboxes[2] # sf_bboxes[3]
  /\ sf_bboxes[1][3] = 0
  /\ sf_result = sf_bboxes[2]

(***************************************************************************)
(* Properties of a batch of videos                                          *)
(***************************************************************************)
\* what user_abort holds for a video processed alone: nothing while the video
\* has produced no handle_output call, else the result of its last call
OwnUserAbort ==
  IF emitted = << >> THEN "unbound"
  ELSE IF emitted[Len(emitted)].abort THEN "true" ELSE "false"

\* C18: no state crosses videos: at the end of the stream of video i the run
\* decides between flush, cleanup and failure as it would had video i been
\* processed alone, whatever happened in the videos before it (user abort
\* included); the user_abort it tests at line 584 is video i's own.
C18_NoStateCrossesVideos ==
  pc = "eos" => user_abort = OwnUserAbort

(***************************************************************************)
(* Properties of user abort                                                 *)
(***************************************************************************)
\* handle_output returned True for a call of the current video
Aborted == \E k \in 1..Len(emitted) : emitted[k].abort

NotAborting(r) == ~r.abort

\* the frame numbers each sink of handle_output received: the output video
\* and the display get every call (lines 638-670), the annotation file and
\* the log only the calls that reach lines 674-710
VideoSink == Numbers(emitted)

AnnotationSink == Numbers(SelectSeq(emitted, NotAborting))

Increasing(ns) == \A i, j \in 1..Len(ns) : i < j => ns[i] < ns[j]

\* C19: once handle_output has returned True no further record is emitted
\* for that video, the run goes on to cleanup without raising and cleanup
\* runs exactly once for the video, the records emitted are in increasing
\* frame order and no sink has received a frame number twice.
C19_AbortStopsEmission ==
  Aborted =>
    /\ \A k \in 1..Len(emitted) : emitted[k].abort => k = Len(emitted)
    /\ user_abort = "true"
    /\ pc \in {"eos", "cleanup", "videos", "done"}
    /\ err = "none"
    /\ cleanups = IF pc \in {"videos", "done"} THEN 1 ELSE 0
    /\ Increasing(VideoSink)
    /\ Increasing(AnnotationSink)
    /\ Len(AnnotationSink) = Len(VideoSink) - 1

C19_Witness ==
  /\ Aborted
  /\ pc = "done"
  /\ cleanups = 1
  /\ Len(MainCalls) >= 2
  /\ Len(FlushCalls) = 2
  /\ FlushCalls[2].abort

(***************************************************************************)
(* Properties of the crop check                                             *)
(***************************************************************************)
\* the pixel rows and columns of the frame inside the box, negative entries
\* of the box clamped to zero
RegionRows(bbox) ==
  {r \in 0..(FrameH - 1) :
     Max2(bbox[2], 0) <= r /\ r < Max2(bbox[2], 0) + Max2(bbox[4], 0)}

RegionCols(bbox) ==
  {c \in 0..(FrameW - 1) :
     Max2(bbox[1], 0) <= c /\ c < Max2(bbox[1], 0) + Max2(bbox[3], 0)}

\* frame f resolved to a box whose crop region has no pixel
ZeroAreaResolved(f) ==
  /\ slots[f + 1].bbox # None
  /\ (RegionRows(slots[f + 1].bbox) = {} \/ RegionCols(slots[f + 1].bbox) = {})

FrameStep == pc = "frame"

NewSlot == slots'[Len(slots')]

NewLabel == answers'[Len(answers')]

\* the five window lists and the two histories each got one more entry, the
\* confidence -1, and kept the entries they had
OneSlotAppended ==
  /\ Len(answers') = Len(answers) + 1
  /\ answers' = Append(answers, NewLabel)
  /\ confidences' = Append(confidences, -1)
  /\ Len(image_sequence') = Len(image_sequence) + 1
  /\ Len(box_sequence') = Len(box_sequence) + 1
  /\ Len(bbox_sequence') = Len(bbox_sequence) + 1
  /\ Len(from_tracker') = Len(from_tracker) + 1
  /\ Len(frames') = Len(frames) + 1

\* the detector returned nothing and there is no tracker fallback
NoFaceFrame == NewSlot.nboxes = 0 /\ (last_known_valid_bbox = None \/ ~track_face)

\* the label rule and the content of sentinel and valid slots
SlotFollowsRule ==
  /\ NewLabel = IF NoFaceFrame THEN noface
                ELSE IF NewSlot.bbox = None THEN nobabyface ELSE none
  /\ NewLabel \in {noface, nobabyface} =>
       /\ box_sequence'[Len(box_sequence')] = <<0, 0, 0, 0, 0>>
       /\ ~image_sequence'[Len(image_sequence')][2]
       /\ bbox_sequence'[Len(bbox_sequence')] = None
  /\ NewLabel = none =>
       /\ image_sequence'[Len(image_sequence')][2]
       /\ bbox_sequence'[Len(bbox_sequence')] = NewSlot.bbox

\* the box resolved for the live frame has a crop region without pixels
NewSlotZeroArea ==
  /\ NewSlot.bbox # None
  /\ (RegionRows(NewSlot.bbox) = {} \/ RegionCols(NewSlot.bbox) = {})

C22_TrackerFlagIffFallback ==
  [][FrameStep =>
       /\ from_tracker' =
            Append(from_tracker,
                   NewSlot.nboxes = 0 /\ track_face /\ last_known_valid_bbox # None)
       /\ NewSlot.tracked = from_tracker'[Len(from_tracker')]
       /\ ~track_face => ~from_tracker'[Len(from_tracker')]
       /\ (NewSlot.appended /\ NewLabel = noface) => ~from_tracker'[Len(from_tracker')]]_vars

C22_Witness ==
  /\ pc = "predict"
  /\ track_face
  /\ Len(from_tracker) >= 3
  /\ \E i, j, k \in 1..Len(from_tracker) :
       /\ i < j /\ j < k
       /\ ~from_tracker[i] /\ answers[i] = noface
       /\ ~from_tracker[j] /\ bbox_sequence[j] # None
       /\ from_tracker[k] /\ slots[k].nboxes = 0

\* the live frame had detector candidates and a slot with a resolved box was
\* appended for it
DetectedAndResolved ==
  FrameStep /\ NewSlot.nboxes > 0 /\ NewSlot.bbox # None /\ NewSlot.appended

\* C23: within a video last_known_valid_bbox changes only on a frame where
\* the detector returned candidates and face resolution succeeded, and is
\* then the selected box; tracker frames, noface frames and nobabyface
\* frames leave it unchanged, and once set it never returns to absent.
C23_LastKnownBoxOnlyFromDetection ==
  [][pc # "videos" =>
       /\ DetectedAndResolved => last_known_valid_bbox' = NewSlot.bbox
       /\ ~DetectedAndResolved => last_known_valid_bbox' = last_known_valid_bbox
       /\ last_known_valid_bbox # None => last_known_valid_bbox' # None]_vars

C23_Witness ==
  /\ pc = "predict"
  /\ Len(slots) >= 4
  /\ slots[1].bbox = BoxA /\ ~slots[1].tracked
  /\ slots[2].bbox = BoxB /\ ~slots[2].tracked
  /\ slots[3].nboxes > 0 /\ slots[3].bbox = None
  /\ slots[4].tracked /\ slots[4].bbox = BoxB
  /\ last_known_valid_bbox = BoxB

\* a step of lines 512-555 in which the transition corrector is invoked
CorrectorStep ==
  /\ pc = "predict"
  /\ WindowFull
  /\ illegal_transitions_path
  /\ Len(answers) >= max_illegal_transition_length

\* the labels the corrector is handed: the stored labels, with the label at
\* loc possibly replaced by a classifier output
CorrectorInputs ==
  {[answers EXCEPT ![PyPos(Len(answers), loc)] = v] :
     v \in GazeOutputs \cup {answers[PyPos(Len(answers), loc)]}}

\* 1-based positions of the n labels ending at Python index e
SpanEndingAt(e, n) ==
  {k \in 1..Len(answers) :
     \E d \in 0..(n - 1) : PyPos(Len(answers), e - d) = k}

\* the corrector compared and rewrote the spans ending at Python index e
CorrectorActsAt(e) ==
  \E pre \in CorrectorInputs :
    /\ answers' = fix_illegal_transitions(e, pre, confidences,
                                          illegal_transitions, corrected_transitions)[1]
    /\ \A k \in 1..Len(answers) :
         answers'[k] # pre[k] => k \in SpanEndingAt(e, max_illegal_transition_length)

\* C24 (as stated): each invocation of the transition corrector compares, for
\* each rule, the last len(pattern) labels ending at the output cursor, the
\* lagged index whose record is emitted in the same step, and rewrites that
\* span on a match.
C24_CorrectorComparesAtCursor ==
  [][CorrectorStep => CorrectorActsAt(cursor)]_vars

\* C24 (amended): each invocation of the transition corrector compares, for
\* each rule, the last len(pattern) labels ending at loc, the index the
\* classifier writes, which is max_illegal_transition_length slots after the
\* output cursor, and rewrites that span on a match.
C24_CorrectorComparesAtLoc ==
  [][CorrectorStep =>
       /\ CorrectorActsAt(loc)
       /\ cursor = loc - max_illegal_transition_length]_vars

\* a rule of two or more labels has just rewritten the labels ending at loc
C24_Witness ==
  /\ pc = "report"
  /\ illegal_transitions_path
  /\ max_illegal_transition_length >= 2
  /\ Len(answers) >= max_illegal_transition_length
  /\ PyPos(Len(answers), loc - 1) > 0
  /\ answers[PyPos(Len(answers), loc)] = left
  /\ confidences[PyPos(Len(confidences), loc)] = -1
  /\ answers[PyPos(Len(answers), loc - 1)] = left
  /\ confidences[PyPos(Len(confidences), loc - 1)] = 90

\* a step of lines 512-545 in which the gaze classifier is invoked
ClassifierStep == pc = "predict" /\ WindowFull /\ MiddleValid

\* 1-based position in answers of the frame held by the window's center slot
CenterSlot == image_sequence[(sliding_window_size \div 2) + 1][1] + 1

\* positions of answers and confidences that a step changes
WrittenSlots ==
  {k \in 1..Len(answers) : answers'[k] # answers[k] \/ confidences'[k] # confidences[k]}

\* C25: the gaze classifier is invoked exactly in the steps where the window
\* holds W slots and the center slot (index W//2) has a valid crop; one
\* invocation writes the label and the confidence of exactly one stored slot,
\* that of the window's center frame, and no slot is written twice.
C25_ClassifierWritesCenterSlot ==
  [][(pc = "predict" /\ ~illegal_transitions_path) =>
       IF WindowFull /\ MiddleValid
       THEN /\ WrittenSlots = {CenterSlot}
            /\ answers'[CenterSlot] \in GazeOutputs
            /\ confidences'[CenterSlot] \in ConfOutputs
            /\ confidences[CenterSlot] = -1
       ELSE WrittenSlots = {}]_vars

\* a call of handle_output, from the main path or from the flush path
Emission == Len(emitted') = Len(emitted) + 1

\* the frame image, the box and the tracker flag of record r are those of
\* the frame whose number the record reports
RecordOfReportedFrame(r) ==
  /\ r.frame_number + 1 \in 1..Len(slots)
  /\ r.cur_frame = r.frame_number
  /\ r.cur_bbox = slots[r.frame_number + 1].bbox
  /\ r.is_from_tracker = slots[r.frame_number + 1].tracked

\* C26: in every main-path record the frame image, the box, the tracker
\* flag, the label and the confidence belong to the same frame, whose index
\* is the reported frame number; in every flush-path record the frame image,
\* the box and the tracker flag belong to the reported frame number.
C26_RecordFieldsOfReportedFrame ==
  [][Emission =>
       /\ RecordOfReportedFrame(LastEmitted)
       /\ LastEmitted.path = "main" =>
            /\ LastEmitted.label = answers[LastEmitted.frame_number + 1]
            /\ LastEmitted.confidence = confidences[LastEmitted.frame_number + 1]]_vars

\* the main-path part of C26 alone
C26_MainRecordFieldsOfReportedFrame ==
  [][MainEmission =>
       /\ RecordOfReportedFrame(LastEmitted)
       /\ LastEmitted.label = answers[LastEmitted.frame_number + 1]
       /\ LastEmitted.confidence = confidences[LastEmitted.frame_number + 1]]_vars

\* the run ended with the configuration error before any video was started
RejectedAtSetup ==
  /\ pc = "error" /\ err = "ValueError"
  /\ video_i = 0 /\ nread = 0 /\ emitted = << >>

C27_WitnessAccepted ==
  /\ illegal_transitions_path
  /\ MaxLen(illegal_transitions) = W - (W \div 2) - 1
  /\ Len(emitted) > 0

\* the class text of a persisted numeric label (the mirroring is already in
\* the persisted label)
PersistedText(label) ==
  LET t == reverse_classes(label)
  IN IF on_off THEN (IF t = "away" THEN "off" ELSE "on") ELSE t

\* the stored label and confidence of the frame of record r are those the
\* record was emitted with, and so are the persisted ones
StoredAsEmitted(r) ==
  LET f == r.frame_number + 1
  IN /\ f \in 1..Len(answers)
     /\ answers[f] = r.label
     /\ confidences[f] = r.confidence
     /\ saved # << >> =>
          /\ saved[1][f] = (IF mirror_annotation THEN MirrorLabel(r.label) ELSE r.label)
          /\ PersistedText(saved[1][f]) = r.class_text
          /\ saved[2][f] = r.confidence

\* C28: once a frame's record has been emitted through the main path, the
\* stored label and confidence of that frame are not modified again by the
\* classifier or the corrector, so the persisted label and confidence of
\* every main-path frame are those emitted for it.
C28_EmittedLabelsAreFinal ==
  \A j \in 1..Len(emitted) :
    emitted[j].path = "main" => StoredAsEmitted(emitted[j])

\* a corrected label was emitted, later frames were classified and corrected,
\* and the labels were persisted
C28_Witness ==
  /\ illegal_transitions_path
  /\ max_illegal_transition_length = 2
  /\ saved # << >>
  /\ \E j \in 1..Len(emitted) :
       /\ emitted[j].path = "main"
       /\ emitted[j].label \in {away, left, right}
       /\ emitted[j].confidence = -1
       /\ \E k \in (emitted[j].frame_number + 2)..Len(answers) : confidences[k] # -1

\* the frame read last has no slot: it is being appended, or its crop was empty
LastFrameUnstored ==
  \/ pc = "frame"
  \/ (slots # << >> /\ ~slots[Len(slots)].appended)

\* lengths of the stored lists, and confidence -1 on every sentinel slot
StoredListsConsistent ==
  /\ Len(answers) = Len(confidences)
  /\ Len(answers) = nread - (IF LastFrameUnstored THEN 1 ELSE 0)
  /\ \A k \in 1..Len(answers) :
       /\ answers[k] \in Sentinels => confidences[k] = -1
       /\ confidences[k] # -1 => (answers[k] \in GazeOutputs /\ confidences[k] \in ConfOutputs)

\* the slot the classifier writes in a step that invokes it
ClassifierSlot == PyPos(Len(answers), loc)

\* a slot that has a confidence other than -1 after a step had it before the
\* step, with the same label, or was written by the classifier in the step
\* and holds the classifier's output
ConfidentSlotsKeepClassifierLabel ==
  \A k \in 1..Len(answers) :
    (k <= Len(confidences') /\ confidences'[k] # -1) =>
      IF ClassifierStep /\ k = ClassifierSlot
      THEN \A v \in GazeOutputs, c \in ConfOutputs :
             LET ans1 == [answers EXCEPT ![k] = v]
                 conf1 == [confidences EXCEPT ![k] = c]
             IN (answers' = Fixed(ans1, conf1)[1] /\ confidences' = Fixed(ans1, conf1)[2])
                  => (answers'[k] = v /\ confidences'[k] = c)
      ELSE confidences'[k] = confidences[k] /\ answers'[k] = answers[k]

MainLabels == [j \in 1..Len(MainCalls) |-> MainCalls[j].label]

\* some rule's pattern is a contiguous subsequence of seq
ContainsPattern(seq) ==
  \E i \in 1..Len(illegal_transitions) :
    \E s \in 1..Len(seq) :
      /\ s + Len(illegal_transitions[i]) - 1 <= Len(seq)
      /\ SubSeq(seq, s, s + Len(illegal_transitions[i]) - 1) = illegal_transitions[i]

\* C30 (as stated): with a correction table, the sequence of numeric labels
\* emitted through the main path never contains a rule's pattern as a
\* contiguous subsequence.
C30_NoPatternEmitted ==
  illegal_transitions_path => ~ContainsPattern(MainLabels)

\* p and c have the same labels over the length of the shorter, from the end
AgreeAtEnd(p, c) ==
  \A d \in 0..(Min2(Len(p), Len(c)) - 1) : p[Len(p) - d] = c[Len(c) - d]

\* the patterns are made of classifier labels, every replacement has its
\* pattern's length and differs from it in the last label only, and no
\* replacement ends like the pattern of the same or an earlier rule
TableClosed ==
  \A j \in 1..Len(illegal_transitions) :
    /\ \A k \in 1..Len(illegal_transitions[j]) :
         illegal_transitions[j][k] \in {away, left, right}
    /\ Len(corrected_transitions[j]) = Len(illegal_transitions[j])
    /\ \A k \in 1..(Len(illegal_transitions[j]) - 1) :
         corrected_transitions[j][k] = illegal_transitions[j][k]
    /\ \A i \in 1..j : ~AgreeAtEnd(illegal_transitions[i], corrected_transitions[j])

\* C30 (amended): with a correction table whose replacements change only the
\* last label of their span and never end like the pattern of the same or an
\* earlier rule, the labels emitted through the main path contain no rule's
\* pattern.
C30_NoPatternEmittedUnderClosedTable ==
  (illegal_transitions_path /\ TableClosed) => ~ContainsPattern(MainLabels)

\* two labels rewritten by the corrector were emitted under a closed table
C30_Witness ==
  /\ illegal_transitions_path
  /\ TableClosed
  /\ max_illegal_transition_length = 2
  /\ \E j \in 1..Len(MainCalls) :
       MainCalls[j].label \in {away, left, right} /\ MainCalls[j].confidence = -1

\* Python index i (negative) addresses an element of a list of length n
InsideList(n, i) == i < 0 /\ -i <= n

\* lines 507-511 read the lists at the cursor in this step
CursorPeek == FrameStep /\ pc' = "predict" /\ frame_count + 1 >= Abs(cursor)

\* the span of rule i, answers[loc - len + 1 : loc + 1], has len elements of
\* answers: neither bound wraps around or is clamped
SpanInside(i) ==
  /\ loc + 1 < 0
  /\ InsideList(Len(answers), loc - Len(illegal_transitions[i]) + 1)
  /\ Len(PySlice(answers, loc - Len(illegal_transitions[i]) + 1, loc + 1))
       = Len(illegal_transitions[i])

\* C31: under an accepted configuration every negative-index access stays
\* inside its list: when a record is emitted the cursor addresses an
\* existing element of frames, bbox_sequence, from_tracker, answers and
\* confidences, the frame has not been popped before it is handed to the
\* sink, and when the corrector runs each rule's span [loc-len+1, loc] lies
\* wholly inside answers.
C31_NegativeIndicesInsideLists ==
  [][/\ pc \in {"frame", "report"} => ~(pc' = "error" /\ err' = "IndexError")
     /\ CursorPeek =>
          /\ InsideList(Len(frames'), cursor)
          /\ InsideList(Len(bbox_sequence'), cursor)
          /\ InsideList(Len(from_tracker'), cursor)
          /\ cur_frame' = frame_count + cursor + 1
     /\ MainEmission =>
          /\ InsideList(Len(answers), cursor)
          /\ InsideList(Len(confidences), cursor)
          /\ LastEmitted.cur_frame = LastEmitted.frame_number
     /\ CorrectorStep =>
          \A i \in 1..Len(illegal_transitions) : SpanInside(i)]_vars

\* records were emitted with the cursor at the oldest slot of the window,
\* after the corrector rewrote a label
C31_Witness ==
  /\ illegal_transitions_path
  /\ Abs(cursor) = W
  /\ Len(emitted) > 1
  /\ \E k \in 1..Len(answers) : answers[k] \in {away, left, right} /\ confidences[k] = -1

\* 0-based indices of the frames before the center of the first full window
LeadFrames == 0..((W \div 2) - 1)

\* the record of frame f emitted through path p, if any
RecordsOf(f, p) ==
  {j \in 1..Len(emitted) : emitted[j].frame_number = f /\ emitted[j].path = p}

\* a stored or emitted label and confidence of a frame never classified
Unclassified(label, conf) == label \in Sentinels /\ conf = -1

\* the classifier never writes the slot of a lead frame
ClassifierSkipsLeadFrames ==
  [][(ClassifierStep /\ W % 2 = 1) => ClassifierSlot - 1 \notin LeadFrames]_vars

\* C32 (as stated): for odd W and a video of T >= W frames, the first W//2
\* frames are never written by the classifier and are emitted through the
\* main path with a sentinel label and confidence -1 (no rule rewriting them).
C32_LeadFramesEmittedByMainPath ==
  /\ ClassifierSkipsLeadFrames
  /\ [](( W % 2 = 1 /\ pc = "cleanup" /\ NoAbort /\ nread >= W) =>
          \A f \in LeadFrames :
            \E j \in RecordsOf(f, "main") :
              Unclassified(emitted[j].label, emitted[j].confidence))

\* C32 (amended): for odd W the first W//2 frames are never written by the
\* classifier and keep a sentinel label and confidence -1; a main-path record
\* of such a frame carries them; after a video of T >= W frames read to its
\* end without abort, the lead frames up to index T - D have a main-path
\* record and the later ones a flush-path record "none", -1.
C32_LeadFramesEmittedUnclassified ==
  /\ ClassifierSkipsLeadFrames
  /\ [](W % 2 = 1 =>
          /\ \A f \in LeadFrames :
               /\ f + 1 <= Len(answers) => Unclassified(answers[f + 1], confidences[f + 1])
               /\ \A j \in RecordsOf(f, "main") :
                    /\ emitted[j].label = answers[f + 1]
                    /\ Unclassified(emitted[j].label, emitted[j].confidence)
          /\ (pc = "cleanup" /\ NoAbort /\ nread >= W) =>
               \A f \in LeadFrames :
                 IF f <= nread - D
                 THEN RecordsOf(f, "main") # {} /\ RecordsOf(f, "flush") = {}
                 ELSE /\ RecordsOf(f, "main") = {}
                      /\ \E j \in RecordsOf(f, "flush") :
                           emitted[j].class_text = "none" /\ emitted[j].confidence = -1)

\* a video of W frames under a rule of two labels: the second lead frame is
\* reported by the flush path, later frames were classified
C32_Witness ==
  /\ W = 5
  /\ illegal_transitions_path
  /\ max_illegal_transition_length = 2
  /\ pc = "cleanup" /\ NoAbort /\ nread = W
  /\ RecordsOf(0, "main") # {}
  /\ RecordsOf(1, "flush") # {}
  /\ \E k \in 1..Len(answers) : confidences[k] # -1

\* the label stored for the frame of record r, mirrored when the annotation
\* is mirrored
StoredMirrored(r) ==
  IF mirror_annotation
  THEN MirrorLabel(answers[r.frame_number + 1])
  ELSE answers[r.frame_number + 1]

\* C33: with the on/off collapse configured, every main-path record's label
\* text is "off" exactly when the stored (possibly mirrored) label is away
\* and "on" for every other stored label, the sentinels none, noface and
\* nobabyface included; flush-path records carry the text "none" whatever
\* the on/off and mirroring options.
C33_OnOffCollapse ==
  \A j \in 1..Len(emitted) :
    /\ (emitted[j].path = "main" /\ on_off) =>
         /\ emitted[j].frame_number + 1 \in 1..Len(answers)
         /\ emitted[j].class_text = "off" <=> StoredMirrored(emitted[j]) = away
         /\ emitted[j].class_text = "on" <=> StoredMirrored(emitted[j]) # away
    /\ emitted[j].path = "flush" => emitted[j].class_text = "none"

\* a mirrored and collapsed run reported an away label, a gaze label, a
\* sentinel and a flushed frame
C33_Witness ==
  /\ on_off /\ mirror_annotation
  /\ \E j \in 1..Len(emitted) :
       emitted[j].path = "main" /\ emitted[j].label = away /\ emitted[j].class_text = "off"
  /\ \E j \in 1..Len(emitted) :
       emitted[j].path = "main" /\ emitted[j].label = noface /\ emitted[j].class_text = "on"
  /\ \E j \in 1..Len(emitted) :
       emitted[j].path = "flush" /\ emitted[j].class_text = "none"

\* without a table the classifier's labels are reported as "on"
C33_WitnessGaze ==
  /\ on_off
  /\ \E j \in 1..Len(emitted) :
       emitted[j].path = "main" /\ emitted[j].label \in {left, right}
         /\ emitted[j].class_text = "on"

====
